---- MODULE Spec2Model ----
(***************************************************************************)
(* A model of the ingestion and retrieval code of ai-blu-demo:             *)
(*   - chunk_text, the sliding-window chunker (three identical copies:     *)
(*     src/ingestion/ingest.py, src/ingestion/chunking.py, src/ingest.py)  *)
(*   - the ingestion runs that delete the collection and insert one        *)
(*     payload per document                                                *)
(*   - VectorProbe.hybrid_search                                           *)
(* Texts are sequences of one-character strings, indexed from 1 in TLA+    *)
(* and from 0 in the Python source: Python index i is TLA+ index i + 1.    *)
(***************************************************************************)
EXTENDS Integers, Sequences, FiniteSets, TLC

VARIABLES
    text,       \* chunk_text: the argument text
    max_chars,  \* chunk_text: the argument max_chars
    overlap,    \* chunk_text: the argument overlap
    start,      \* chunk_text: the local start
    chunks,     \* chunk_text: the local chunks (the list returned)
    seen,       \* history: the values of start at which an iteration began
    pc,         \* chunk_text: "call", "loop", "done", or "diverged"
    store,         \* the collection: the records, in insertion order
    chunkFiles,    \* staging: file_name -> the chunks of <stem>_chunks.json
    enrichedFiles, \* staging: file_name -> the data of <stem>_chunks_enriched.json
    runPath,       \* the ingestion path of the current run
    runState,      \* "idle", "indexed", "indexed_legacy" (the index step of
                   \* the script is done), "process", "convert", "embed",
                   \* "ingest", "completed", or "aborted" (an exception left
                   \* the run)
    sources,       \* the documents the current run enumerated
    pending,       \* the documents or files the current loop has yet to visit
    emitted,       \* history: document -> the number of chunks chunk_text
                   \* returned for it in the current run
    encodeLog,     \* history: the embedding-model invocations of the current
                   \* run, each with its document and the number of texts
    failed,        \* history: the documents whose processing raised
    deleted,       \* history: the current run has called delete_many
    runs,          \* history: the number of runs started
    aborts,        \* history: an exception has ended a run (TRUE or FALSE)
    before,        \* history: the collection held records when the current
                   \* run began (TRUE or FALSE)
    collections,   \* the names of the collections of the database
    indexes,       \* the names of the search indexes of the collection
    indexNote,     \* what the index step of the current run printed:
                   \* "requested", or the exception it noted; "none" when
                   \* the run has no index step
    ops,           \* history: the store operations of the current run, in
                   \* order: "ensure", "delete", "insert"
    limit,         \* the limit of the last search call (the argument of
                   \* hybrid_search, the 3 of probe_search)
    results,       \* the list the last search call returned
    vectorStage    \* the numCandidates and the limit of the $vectorSearch
                   \* stage the last search call sent

chunkVars == <<text, max_chars, overlap, start, chunks, seen, pc>>

ingestVars ==
    <<store, chunkFiles, enrichedFiles, runPath, runState, sources, pending,
      emitted, encodeLog, failed, deleted, runs, aborts, before,
      collections, indexes, indexNote, ops>>

searchVars == <<limit, results, vectorStage>>

vars ==
    <<text, max_chars, overlap, start, chunks, seen, pc,
      store, chunkFiles, enrichedFiles, runPath, runState, sources, pending,
      emitted, encodeLog, failed, deleted, runs, aborts, before,
      collections, indexes, indexNote, ops,
      limit, results, vectorStage>>

----------------------------------------------------------------------------
(* Python string primitives used by chunk_text *)

Min(S) == CHOOSE x \in S : \A y \in S : x <= y

Max(S) == CHOOSE x \in S : \A y \in S : x >= y

\* str.strip() removes leading and trailing whitespace; rfind(" ") looks
\* for the space character alone.  "\n" stands for every whitespace
\* character that is not a space.
IsWhitespace(c) == c \in {" ", "\n"}

\* How Python clamps a slice index i against a string of length n.
SliceIndex(i, n) ==
    IF i < 0 THEN (IF i + n < 0 THEN 0 ELSE i + n)
    ELSE IF i > n THEN n ELSE i

\* s[lo:hi]
Slice(s, lo, hi) ==
    LET a == SliceIndex(lo, Len(s))
        b == SliceIndex(hi, Len(s))
    IN  IF a >= b THEN <<>> ELSE SubSeq(s, a + 1, b)

\* s.rfind(" ", lo, hi): the highest index of a space in s[lo:hi], or -1
RFind(s, lo, hi) ==
    LET a == SliceIndex(lo, Len(s))
        b == SliceIndex(hi, Len(s))
        hits == {i \in a..(b - 1) : s[i + 1] = " "}
    IN  IF hits = {} THEN -1 ELSE Max(hits)

\* s.strip()
Strip(s) ==
    LET keep == {i \in 1..Len(s) : ~IsWhitespace(s[i])}
    IN  IF keep = {} THEN <<>> ELSE SubSeq(s, Min(keep), Max(keep))

----------------------------------------------------------------------------
(* chunk_text *)

\* The minimum-length threshold: a trimmed slice is emitted only when it is
\* longer than this.
MinChunkLen == 20

\* ShortResult with the text returned untrimmed.
ShortResultUntrimmed(t) ==
    IF Len(t) > MinChunkLen THEN <<t>> ELSE <<>>

\* The short-text branch: the whole text, trimmed, or nothing.
ShortResult(t) ==
    IF Len(Strip(t)) > MinChunkLen THEN <<Strip(t)>> ELSE <<>>

\* WindowEnd with the window one character too wide.
WindowEndOffByOne(t, mc, s) ==
    LET end == s + mc + 1
    IN  IF end < Len(t)
        THEN LET last_space == RFind(t, s, end)
             IN  IF last_space # -1 THEN last_space ELSE end
        ELSE end

\* The end of the window that begins at s: s + max_chars, snapped back to
\* the last space of the window when the window ends before the text does.
WindowEnd(t, mc, s) ==
    LET end == s + mc
    IN  IF end < Len(t)
        THEN LET last_space == RFind(t, s, end)
             IN  IF last_space # -1 THEN last_space ELSE end
        ELSE end

\* The chunks after the slice t[s:e] has been considered.
Emit(cs, t, s, e) ==
    LET chunk == Strip(Slice(t, s, e))
    IN  IF Len(chunk) > MinChunkLen THEN Append(cs, chunk) ELSE cs

\* NextStart with the overlap forgotten: the next window begins at end.
NextStartNoOverlap(e, ov) == e

\* The next start: end - overlap, and end + 1 when that is not below end.
NextStart(e, ov) ==
    LET s == e - ov
    IN  IF s >= e THEN e + 1 ELSE s

\* len(text) <= max_chars: return at once.
ChunkShort ==
    /\ pc = "call"
    /\ Len(text) <= max_chars
    /\ chunks' = ShortResult(text)
    /\ pc' = "done"
    /\ UNCHANGED <<text, max_chars, overlap, start, seen>>
    /\ UNCHANGED <<ingestVars, searchVars>>

\* len(text) > max_chars: fall through to the while loop.
ChunkEnter ==
    /\ pc = "call"
    /\ Len(text) > max_chars
    /\ pc' = "loop"
    /\ UNCHANGED <<text, max_chars, overlap, start, chunks, seen>>
    /\ UNCHANGED <<ingestVars, searchVars>>

\* The iterations from here on never end the loop, because one of them
\* begins at a start an earlier one began at (text, max_chars and overlap
\* never change, so the same iterations follow again), or because the
\* window lies wholly before the text (Python clamps it to the empty
\* slice, rfind returns -1, end stays start + max_chars) and the step
\* max_chars - overlap is not positive, so every later window does too.
LoopRepeats ==
    \/ start \in seen
    \/ overlap >= max_chars /\ start + max_chars <= -Len(text)

\* One iteration of the while loop.
ChunkLoop ==
    /\ pc = "loop"
    /\ start < Len(text)
    /\ ~LoopRepeats
    /\ LET end == WindowEnd(text, max_chars, start)
       IN  /\ chunks' = Emit(chunks, text, start, end)
           /\ start' = NextStart(end, overlap)
    /\ seen' = seen \cup {start}
    /\ UNCHANGED <<text, max_chars, overlap, pc>>
    /\ UNCHANGED <<ingestVars, searchVars>>

\* The loop condition fails: return chunks.
ChunkReturn ==
    /\ pc = "loop"
    /\ start >= Len(text)
    /\ pc' = "done"
    /\ UNCHANGED <<text, max_chars, overlap, start, chunks, seen>>
    /\ UNCHANGED <<ingestVars, searchVars>>

\* The loop goes on for ever: the call never returns.
ChunkDiverge ==
    /\ pc = "loop"
    /\ start < Len(text)
    /\ LoopRepeats
    /\ pc' = "diverged"
    /\ UNCHANGED <<text, max_chars, overlap, start, chunks, seen>>
    /\ UNCHANGED <<ingestVars, searchVars>>

----------------------------------------------------------------------------
(* The inputs of chunk_text *)

\* The state before any ingestion run: an empty collection, an empty
\* staging directory.
InitIngestVars ==
    /\ limit = 0
    /\ results = <<>>
    /\ vectorStage = [numCandidates |-> 0, limit |-> 0]
    /\ store = <<>>
    /\ chunkFiles = <<>>
    /\ enrichedFiles = <<>>
    /\ runPath = "none"
    /\ runState = "idle"
    /\ sources = <<>>
    /\ pending = <<>>
    /\ emitted = <<>>
    /\ encodeLog = <<>>
    /\ failed = {}
    /\ deleted = FALSE
    /\ runs = 0
    /\ aborts = FALSE
    /\ before = FALSE
    /\ collections = {}
    /\ indexes = {}
    /\ indexNote = "none"
    /\ ops = <<>>

\* A run of n copies of the character c.
Run(c, n) == [i \in 1..n |-> c]

\* The pieces texts are built from: a short word, a word longer than the
\* threshold, a space, a newline.
LongWordLen == 22

Pieces == {Run("a", 1), Run("a", LongWordLen), <<" ">>, <<"\n">>}

MaxPieces == 4

RECURSIVE TextsOf(_)
TextsOf(n) ==
    IF n = 0 THEN {<<>>}
    ELSE LET shorter == TextsOf(n - 1)
         IN  shorter \cup {t \o p : t \in shorter, p \in Pieces}

MaxCharsValues == {1, 10, LongWordLen + 1, 30}

OverlapValues == {0, 5, LongWordLen + 1, 40}

\* A text of n characters with a space at each Python index of S.
SpacedText(n, S) == [i \in 1..n |-> IF (i - 1) \in S THEN " " ELSE "a"]

\* The documents of the 1000-character scenario, chunked as ingest_data
\* chunks them (max_chars=800, overlap=150).
ScenarioSpaces == {20, 150, 400, 479, 480, 499, 500, 795, 800, 985}

ScenarioTexts ==
    {SpacedText(1000, S) : S \in {T \in SUBSET ScenarioSpaces : Cardinality(T) <= 2}}
    \cup {Run(" ", 1000)}

InitChunk ==
    /\ \/ /\ text \in TextsOf(MaxPieces)
          /\ max_chars \in MaxCharsValues
          /\ overlap \in OverlapValues
       \/ /\ text \in ScenarioTexts
          /\ max_chars = 800
          /\ overlap = 150
    /\ start = 0
    /\ chunks = <<>>
    /\ seen = {}
    /\ pc = "call"
    /\ InitIngestVars

NextChunk ==
    \/ ChunkShort
    \/ ChunkEnter
    \/ ChunkLoop
    \/ ChunkReturn
    \/ ChunkDiverge

SpecChunk == InitChunk /\ [][NextChunk]_vars

----------------------------------------------------------------------------
(* chunk_text as a function, for the callers that need its result *)

RECURSIVE ChunkFrom(_, _, _, _, _)
ChunkFrom(t, mc, ov, s, cs) ==
    IF s >= Len(t) THEN cs
    ELSE LET end == WindowEnd(t, mc, s)
         IN  ChunkFrom(t, mc, ov, NextStart(end, ov), Emit(cs, t, s, end))

chunk_text(t, mc, ov) ==
    IF Len(t) <= mc THEN ShortResult(t) ELSE ChunkFrom(t, mc, ov, 0, <<>>)

----------------------------------------------------------------------------
(* The collaborators of an ingestion run *)

NUM_DIMENSIONS == 384

\* The documents a source can hold, and a key that is no PDF.
Docs == {"a.pdf", "b.pdf", "c.pdf"}

OtherKeys == {"notes.txt"}

\* key.lower().endswith(".pdf")
IsPdf(k) == k \in Docs

\* What the converter exports for a document: a.pdf gives two chunks (two
\* words 900 spaces apart), b.pdf one, c.pdf none (10 characters).
DocText(d) ==
    CASE d = "a.pdf" -> Run("a", 22) \o Run(" ", 900) \o Run("a", 25)
      [] d = "b.pdf" -> Run("a", 30)
      [] OTHER -> Run("a", 10)

\* chunk_text of each document's text with max_chars=800 and the overlap
\* given (computed once).
DocChunks ==
    [d \in Docs |-> [ov \in {100, 150} |-> chunk_text(DocText(d), 800, ov)]]

\* converter.convert(...) returns, or raises.
ConvertOutcomes == {"ok", "raise"}

MaxDocs == 2

MaxRuns == 2

\* The sequences without repetition over S, of at most n elements.
RECURSIVE ListsOf(_, _)
ListsOf(S, n) ==
    IF n = 0 THEN {<<>>}
    ELSE LET shorter == ListsOf(S, n - 1)
         IN  shorter \cup
             UNION {{Append(l, x) : x \in S \ {l[i] : i \in 1..Len(l)}} :
                       l \in shorter}

\* The files of a set of names in the order a directory listing gives
\* them (one fixed order).
DocOrder == <<"a.pdf", "b.pdf", "c.pdf">>

Listing(S) == SelectSeq(DocOrder, LAMBDA d : d \in S)

\* The keys of a bucket in the order list_objects_v2 gives them (by key).
KeyOrder == <<"a.pdf", "b.pdf", "c.pdf", "notes.txt">>

\* What a source can enumerate: at most n of the names of S, in the order
\* of the listing.
Listings(order, S, n) ==
    {SelectSeq(order, LAMBDA k : k \in T) :
        T \in {U \in SUBSET S : Cardinality(U) <= n}}

\* k vectors of dim numbers each; vector i embeds text i of the batch.
Vectors(k, dim) == [i \in 1..k |-> [dim |-> dim, of |-> i]]

\* What embed_model.encode(chunks).tolist() can give for a batch of n texts:
\* n vectors of NUM_DIMENSIONS numbers, a result of another count or of
\* another vector length, or an exception (ok is FALSE).  sizes lists the
\* invocations made, each with the number of texts it covers.
EncodeBatch(n) ==
    {[sizes |-> <<n>>, ok |-> TRUE, embs |-> e] :
        e \in {Vectors(n, NUM_DIMENSIONS), Vectors(n + 1, NUM_DIMENSIONS),
               Vectors(n, NUM_DIMENSIONS - 1)}
              \cup (IF n > 0 THEN {Vectors(n - 1, NUM_DIMENSIONS)} ELSE {})}
    \cup {[sizes |-> <<n>>, ok |-> FALSE, embs |-> <<>>]}

\* What one embed_model.encode(text) per chunk can give for n chunks: every
\* call returns a vector, or call k raises.
EncodeEach(n) ==
    {[sizes |-> [i \in 1..n |-> 1], ok |-> TRUE, embs |-> e] :
        e \in {Vectors(n, NUM_DIMENSIONS), Vectors(n, NUM_DIMENSIONS - 1)}}
    \cup {[sizes |-> [i \in 1..k |-> 1], ok |-> FALSE, embs |-> <<>>] : k \in 1..n}

\* The records of a document, with chunk_id counted from 1.
PayloadFromOne(name, cs, embs, r) ==
    [i \in 1..Len(cs) |->
        [file_name |-> name, chunk_id |-> i, text |-> cs[i],
         embedding |-> embs[i], run |-> r]]

\* The records of a document: chunk i of enumerate(chunks) with
\* embeddings[i].  (ingested_at, a timestamp, is left out; run is history:
\* the run that wrote the record.)
Payload(name, cs, embs, r) ==
    [i \in 1..Len(cs) |->
        [file_name |-> name, chunk_id |-> i - 1, text |-> cs[i],
         embedding |-> embs[i], run |-> r]]

\* delete_many({}) that deletes nothing.
DeleteNothing(coll) == coll

\* collection.delete_many({})
DeleteMany(coll) == <<>>

COLLECTION_NAME == "documents"

\* The names of the two SearchIndexModels: keyword_index, vector_index.
IndexNames == {"keyword_index", "vector_index"}

\* ensure_collection: create the collection when the database does not
\* list it.
EnsureCollection(colls) ==
    IF COLLECTION_NAME \notin colls THEN colls \cup {COLLECTION_NAME} ELSE colls

\* insert_many creates the collection it writes to when it is missing.
InsertInto(colls) == colls \cup {COLLECTION_NAME}

\* collection.create_search_indexes(models=indexes), one command for the
\* two models, as the store can answer it: with none of the names taken,
\* both indexes are created, or the command fails for another reason; with
\* a name taken, the command fails with "already exists".  A command that
\* fails creates nothing.
CreateSearchIndexes(ix) ==
    IF ix \cap IndexNames = {}
    THEN {[note |-> "requested", indexes |-> ix \cup IndexNames],
          [note |-> "error", indexes |-> ix]}
    ELSE {[note |-> "exists", indexes |-> ix]}

\* A try/except that lets the exception of the index command through.
CaughtNothing(note) == FALSE

\* `except Exception as e`: every exception of the index command is caught
\* and printed.
Caught(note) == TRUE

\* The state after the index command answered with note: the script goes
\* on (to entry), or the exception leaves it.
AfterIndexes(note, entry) ==
    IF note # "requested" /\ ~Caught(note) THEN "aborted" ELSE entry

\* The states a run of each path begins in: the scripts of ingest_data and
\* ingest_from_s3 call their index step first, the staged pipeline has
\* none.
RunEntry(path) ==
    CASE path \in {"local", "s3"} -> {"indexed"}
      [] path = "legacy" -> {"indexed_legacy"}
      [] OTHER -> {"idle", "completed", "aborted"}

\* The elements of a sequence
Range(q) == {q[i] : i \in 1..Len(q)}

\* f with key k set to v, and f without key k
Put(f, k, v) == [x \in DOMAIN f \cup {k} |-> IF x = k THEN v ELSE f[x]]

Drop(f, k) == [x \in DOMAIN f \ {k} |-> f[x]]

LogOf(d, sizes) == [i \in 1..Len(sizes) |-> [doc |-> d, texts |-> sizes[i]]]

\* The state of a loop that has visited the head of pending.
After(rest, st) == IF rest = <<>> THEN "completed" ELSE st

----------------------------------------------------------------------------
(* The ingestion runs *)

\* What the start of every run resets (history).
BeginRun(path, srcs) ==
    /\ runState \in RunEntry(path)
    /\ runs < MaxRuns
    /\ runs' = runs + 1
    /\ runPath' = path
    /\ sources' = srcs
    /\ emitted' = <<>>
    /\ encodeLog' = <<>>
    /\ failed' = {}
    /\ before' = (Len(store) >= 1)

\* A script starts: the history of the run before it is forgotten.
NewScript ==
    /\ runState \in {"idle", "completed", "aborted"}
    /\ runs < MaxRuns
    /\ runPath' = "none"
    /\ sources' = <<>>
    /\ pending' = <<>>
    /\ emitted' = <<>>
    /\ encodeLog' = <<>>
    /\ failed' = {}
    /\ deleted' = FALSE

\* The script of src/ingestion/ingest.py up to its ingestion call:
\* RAGPipeline.create_indexes, which calls ensure_collection first.
CreateIndexes ==
    /\ NewScript
    /\ collections' = EnsureCollection(collections)
    /\ \E out \in CreateSearchIndexes(indexes) :
        /\ indexes' = out.indexes
        /\ indexNote' = out.note
        /\ runState' = AfterIndexes(out.note, "indexed")
        /\ aborts' = (aborts \/ AfterIndexes(out.note, "indexed") = "aborted")
    /\ ops' = <<"ensure">>
    /\ UNCHANGED <<store, chunkFiles, enrichedFiles, runs, before>>
    /\ UNCHANGED <<chunkVars, searchVars>>

\* The script of src/ingest.py up to its ingestion call:
\* RAGPipeline.setup_database (no ensure_collection).
SetupDatabase ==
    /\ NewScript
    /\ \E out \in CreateSearchIndexes(indexes) :
        /\ indexes' = out.indexes
        /\ indexNote' = out.note
        /\ runState' = AfterIndexes(out.note, "indexed_legacy")
        /\ aborts' = (aborts \/ AfterIndexes(out.note, "indexed_legacy") = "aborted")
    /\ ops' = <<"ensure">>
    /\ UNCHANGED <<store, chunkFiles, enrichedFiles, runs, before, collections>>
    /\ UNCHANGED <<chunkVars, searchVars>>

\* RAGPipeline.ingest_data, of src/ingestion/ingest.py ("local") and of
\* src/ingest.py ("legacy"), up to its loop: no PDF, return; else delete.
StartIngestData ==
    /\ \E path \in {"local", "legacy"} : \E srcs \in Listings(DocOrder, Docs, MaxDocs) :
        /\ BeginRun(path, srcs)
        /\ IF srcs = <<>>
           THEN /\ runState' = "completed"
                /\ deleted' = FALSE
                /\ UNCHANGED <<store, ops>>
           ELSE /\ runState' = "process"
                /\ deleted' = TRUE
                /\ store' = DeleteMany(store)
                /\ ops' = Append(ops, "delete")
        /\ pending' = srcs
    /\ UNCHANGED <<chunkFiles, enrichedFiles, aborts, collections, indexes, indexNote>>
    /\ UNCHANGED <<chunkVars, searchVars>>

\* RAGPipeline.ingest_from_s3 up to its loop (the client is configured): a
\* listing without Contents, return; else delete.  The loop skips the keys
\* that do not end in .pdf.
StartIngestFromS3 ==
    /\ \E keys \in Listings(KeyOrder, Docs \cup OtherKeys, MaxDocs) :
        /\ BeginRun("s3", SelectSeq(keys, IsPdf))
        /\ IF keys = <<>>
           THEN /\ runState' = "completed"
                /\ deleted' = FALSE
                /\ UNCHANGED <<store, ops>>
           ELSE /\ runState' = After(SelectSeq(keys, IsPdf), "process")
                /\ deleted' = TRUE
                /\ store' = DeleteMany(store)
                /\ ops' = Append(ops, "delete")
        /\ pending' = SelectSeq(keys, IsPdf)
    /\ UNCHANGED <<chunkFiles, enrichedFiles, aborts, collections, indexes, indexNote>>
    /\ UNCHANGED <<chunkVars, searchVars>>

\* The overlap each path chunks with (max_chars is 800 in all).
OverlapOf(path) == IF path = "s3" THEN 100 ELSE 150

\* The embedding calls of a path for the n chunks of a document.
EncodeOf(path, n) == IF path = "legacy" THEN EncodeEach(n) ELSE EncodeBatch(n)

\* An exception leaves the run while document d is processed.
Abort(d) ==
    /\ runState' = "aborted"
    /\ failed' = failed \cup {d}
    /\ aborts' = TRUE

\* One iteration of the loop of ingest_data, or of ingest_from_s3 with
\* _process_and_store: convert, chunk, embed, insert.
ProcessDoc ==
    /\ runState = "process"
    /\ pending # <<>>
    /\ LET d == Head(pending)
           cs == DocChunks[d][OverlapOf(runPath)]
       IN  \E conv \in ConvertOutcomes :
             IF conv = "raise"
             THEN /\ Abort(d)
                  /\ UNCHANGED <<store, pending, emitted, encodeLog, collections, ops>>
             ELSE /\ emitted' = Put(emitted, d, Len(cs))
                  /\ IF cs = <<>>
                     THEN /\ pending' = Tail(pending)
                          /\ runState' = After(Tail(pending), "process")
                          /\ UNCHANGED <<store, encodeLog, failed, aborts, collections, ops>>
                     ELSE \E enc \in EncodeOf(runPath, Len(cs)) :
                            /\ encodeLog' = encodeLog \o LogOf(d, enc.sizes)
                            /\ IF ~enc.ok \/ Len(enc.embs) < Len(cs)
                               THEN /\ Abort(d)
                                    /\ UNCHANGED <<store, pending, collections, ops>>
                               ELSE /\ store' = store \o Payload(d, cs, enc.embs, runs)
                                    /\ collections' = InsertInto(collections)
                                    /\ ops' = Append(ops, "insert")
                                    /\ pending' = Tail(pending)
                                    /\ runState' = After(Tail(pending), "process")
                                    /\ UNCHANGED <<failed, aborts>>
    /\ UNCHANGED <<chunkFiles, enrichedFiles, runPath, sources, deleted, runs, before,
                   indexes, indexNote>>
    /\ UNCHANGED <<chunkVars, searchVars>>

\* run_conversion (stage 1 of the staged pipeline) up to its loop.
StartConversion ==
    /\ \E srcs \in Listings(DocOrder, Docs, MaxDocs) :
        /\ BeginRun("staged", srcs)
        /\ pending' = srcs
    /\ runState' = "convert"
    /\ deleted' = FALSE
    /\ indexNote' = "none"
    /\ ops' = <<>>
    /\ UNCHANGED <<store, chunkFiles, enrichedFiles, aborts, collections, indexes>>
    /\ UNCHANGED <<chunkVars, searchVars>>

\* One iteration of run_conversion: convert, chunk, write <stem>_chunks.json.
ConvertDoc ==
    /\ runState = "convert"
    /\ pending # <<>>
    /\ LET d == Head(pending)
           cs == DocChunks[d][150]
       IN  \E conv \in ConvertOutcomes :
             IF conv = "raise"
             THEN /\ Abort(d)
                  /\ UNCHANGED <<chunkFiles, pending, emitted>>
             ELSE /\ chunkFiles' = Put(chunkFiles, d, cs)
                  /\ emitted' = Put(emitted, d, Len(cs))
                  /\ pending' = Tail(pending)
                  /\ UNCHANGED <<runState, failed, aborts>>
    /\ UNCHANGED <<store, enrichedFiles, runPath, sources, encodeLog, deleted, runs, before,
                   collections, indexes, indexNote, ops>>
    /\ UNCHANGED <<chunkVars, searchVars>>

\* run_embedding (stage 2) up to its loop: list the chunk files.
StartEmbedding ==
    /\ runState = "convert"
    /\ pending = <<>>
    /\ runState' = "embed"
    /\ pending' = Listing(DOMAIN chunkFiles)
    /\ UNCHANGED <<store, chunkFiles, enrichedFiles, runPath, sources, emitted,
                   encodeLog, failed, deleted, runs, aborts, before,
                   collections, indexes, indexNote, ops>>
    /\ UNCHANGED <<chunkVars, searchVars>>

\* One iteration of run_embedding: encode the chunks of a file, write the
\* enriched file, unlink the chunk file.
EmbedFile ==
    /\ runState = "embed"
    /\ pending # <<>>
    /\ LET f == Head(pending)
           cs == chunkFiles[f]
       IN  \E enc \in EncodeBatch(Len(cs)) :
             /\ encodeLog' = encodeLog \o LogOf(f, enc.sizes)
             /\ IF ~enc.ok
                THEN /\ Abort(f)
                     /\ UNCHANGED <<chunkFiles, enrichedFiles, pending>>
                ELSE /\ enrichedFiles' =
                          Put(enrichedFiles, f, [chunks |-> cs, embeddings |-> enc.embs])
                     /\ chunkFiles' = Drop(chunkFiles, f)
                     /\ pending' = Tail(pending)
                     /\ UNCHANGED <<runState, failed, aborts>>
    /\ UNCHANGED <<store, runPath, sources, emitted, deleted, runs, before,
                   collections, indexes, indexNote, ops>>
    /\ UNCHANGED <<chunkVars, searchVars>>

\* run_ingestion (stage 3) up to its loop: delete, list the enriched files.
StartIngestion ==
    /\ runState = "embed"
    /\ pending = <<>>
    /\ store' = DeleteMany(store)
    /\ deleted' = TRUE
    /\ ops' = Append(ops, "delete")
    /\ pending' = Listing(DOMAIN enrichedFiles)
    /\ runState' = After(Listing(DOMAIN enrichedFiles), "ingest")
    /\ UNCHANGED <<chunkFiles, enrichedFiles, runPath, sources, emitted,
                   encodeLog, failed, runs, aborts, before,
                   collections, indexes, indexNote>>
    /\ UNCHANGED <<chunkVars, searchVars>>

\* One iteration of run_ingestion: build the payload of an enriched file,
\* insert it when it is not empty, unlink the file.
IngestFile ==
    /\ runState = "ingest"
    /\ pending # <<>>
    /\ LET f == Head(pending)
           data == enrichedFiles[f]
       IN  IF Len(data.embeddings) < Len(data.chunks)
           THEN /\ Abort(f)
                /\ UNCHANGED <<store, enrichedFiles, pending, collections, ops>>
           ELSE /\ IF data.chunks # <<>>
                   THEN /\ store' = store \o Payload(f, data.chunks, data.embeddings, runs)
                        /\ collections' = InsertInto(collections)
                        /\ ops' = Append(ops, "insert")
                   ELSE UNCHANGED <<store, collections, ops>>
                /\ enrichedFiles' = Drop(enrichedFiles, f)
                /\ pending' = Tail(pending)
                /\ runState' = After(Tail(pending), "ingest")
                /\ UNCHANGED <<failed, aborts>>
    /\ UNCHANGED <<chunkFiles, runPath, sources, emitted, encodeLog, deleted, runs, before,
                   indexes, indexNote>>
    /\ UNCHANGED <<chunkVars, searchVars>>

Init ==
    /\ InitIngestVars
    /\ text = <<>>
    /\ max_chars = 800
    /\ overlap = 150
    /\ start = 0
    /\ chunks = <<>>
    /\ seen = {}
    /\ pc = "idle"

Next ==
    \/ CreateIndexes
    \/ SetupDatabase
    \/ StartIngestData
    \/ StartIngestFromS3
    \/ ProcessDoc
    \/ StartConversion
    \/ ConvertDoc
    \/ StartEmbedding
    \/ EmbedFile
    \/ StartIngestion
    \/ IngestFile

Spec == Init /\ [][Next]_vars

----------------------------------------------------------------------------
(* Properties of the ingestion runs *)

\* The records of document d, in insertion order.
RecordsOf(d) == SelectSeq(store, LAMBDA r : r.file_name = d)

\* The embedding-model invocations of the current run for document d.
CallsFor(d) == SelectSeq(encodeLog, LAMBDA c : c.doc = d)

RECURSIVE SumOver(_, _)
SumOver(f, S) ==
    IF S = {} THEN 0
    ELSE LET x == CHOOSE y \in S : TRUE
         IN  f[x] + SumOver(f, S \ {x})

\* The number of chunks chunk_text returned in the current run.
TotalEmitted == SumOver(emitted, DOMAIN emitted)

\* C2: in a run of ingest_data or ingest_from_s3, when the conversion or
\* the embedding of a document fails, every other document of the run is
\* still converted and chunked, and inserted when it has chunks.
C2_FailureIsolated ==
    (runPath \in {"local", "legacy", "s3"} /\ runState \in {"completed", "aborted"}) =>
        \A d \in Range(sources) \ failed :
            /\ d \in DOMAIN emitted
            /\ Len(RecordsOf(d)) = emitted[d]

\* C3 as stated: after any sequence of completed runs, the record count is
\* the number of chunks the most recent run produced, and every record was
\* written by that run.
C3_FullReplace ==
    (runState = "completed" /\ ~aborts) =>
        /\ Len(store) = TotalEmitted
        /\ \A i \in 1..Len(store) : store[i].run = runs

\* C3 amended: the same, after a most recent run that reached its
\* delete_many (a run that finds no source returns before it).
C3_FullReplaceAfterDelete ==
    (runState = "completed" /\ ~aborts /\ deleted) =>
        /\ Len(store) = TotalEmitted
        /\ \A i \in 1..Len(store) : store[i].run = runs

\* C3's case: a later run has completed, with records written, on a
\* collection that held records of an earlier run when it began.
C3_Witness ==
    /\ runState = "completed"
    /\ ~aborts
    /\ deleted
    /\ runs >= 2
    /\ before
    /\ Len(store) >= 1

\* C4: after a completed run, the records of each source document are as
\* many as the chunks chunk_text returned for it, and record i (counted
\* from 0, in insertion order) has chunk_id i and the text of chunk i.
C4_ChunkIds ==
    runState = "completed" =>
        \A d \in Range(sources) :
            /\ d \in DOMAIN emitted
            /\ Len(RecordsOf(d)) = emitted[d]
            /\ emitted[d] = Len(DocChunks[d][OverlapOf(runPath)])
            /\ \A i \in 1..Len(RecordsOf(d)) :
                  /\ RecordsOf(d)[i].chunk_id = i - 1
                  /\ RecordsOf(d)[i].text = DocChunks[d][OverlapOf(runPath)][i]

\* C4's case: a run over a document of two chunks and another document has
\* completed on a collection that was not empty, and both records of the
\* two-chunk document are stored.
C4_Witness ==
    /\ runState = "completed"
    /\ before
    /\ Len(sources) >= 2
    /\ "a.pdf" \in Range(sources)
    /\ Len(RecordsOf("a.pdf")) = 2

\* C6: in every path, a document of n >= 1 chunks causes exactly one
\* embedding-model invocation, covering its n chunks, and a document of no
\* chunks causes none.
C6_OneBatchPerDocument ==
    runState = "completed" =>
        \A d \in DOMAIN emitted :
            IF emitted[d] >= 1
            THEN CallsFor(d) = <<[doc |-> d, texts |-> emitted[d]]>>
            ELSE CallsFor(d) = <<>>

\* C7: every record of the collection has an embedding of exactly
\* NUM_DIMENSIONS numbers.
C7_EmbeddingDimensions ==
    \A i \in 1..Len(store) : store[i].embedding.dim = 384

\* C12: when the index step of a run finds keyword_index or vector_index
\* already there, it does not raise (the script goes on, to the ingestion
\* that follows) and the collection keeps exactly the two declared indexes.
C12_IndexesIdempotent ==
    indexNote = "exists" =>
        /\ indexes = IndexNames
        /\ ops = <<"ensure">> => runState # "aborted"

\* C12's case: a run whose index step found the indexes of an earlier run
\* has gone on to ingest records, and the two indexes are there.
C12_Witness ==
    /\ indexNote = "exists"
    /\ runs >= 2
    /\ runState = "completed"
    /\ Len(store) >= 1
    /\ indexes = IndexNames

\* The positions of the operation o in the log of the current run.
OpsAt(o) == {i \in 1..Len(ops) : ops[i] = o}

\* C14: in every run, the ensure step is the first store operation, one
\* delete at most follows it, and every insert comes after the delete.
C14_RunOrder ==
    ops # <<>> =>
        /\ ops[1] = "ensure"
        /\ OpsAt("ensure") = {1}
        /\ Cardinality(OpsAt("delete")) <= 1
        /\ \A i \in OpsAt("insert") : \E j \in OpsAt("delete") : j < i

\* C15: a completed run whose source enumeration found nothing to process
\* (no document, no staged file, no key that is a PDF) has deleted no
\* record and inserted none: a collection that held records when the run
\* began still holds records, and one that held none holds none.
C15_EmptySourceUntouched ==
    (runState = "completed" /\ sources = <<>> /\ encodeLog = <<>>
        /\ OpsAt("insert") = {}) =>
        (before <=> store # <<>>)

----------------------------------------------------------------------------
(* VectorProbe.hybrid_search *)

NumCandidates == 50

MaxLimit == 2

\* The sequences without repetition over S of exactly n elements.
ListsOfLen(S, n) == {l \in ListsOf(S, n) : Len(l) = n}

\* The smaller of two numbers.
Least(a, b) == IF a <= b THEN a ELSE b

\* A $vectorSearch stage with numCandidates nc and limit lim: of the
\* collection's n records, the lim nearest to the query vector among nc
\* candidates, nearest first (which they are depends on the query: any
\* ranking).  Records are named by their position in coll.
VectorSearch(coll, nc, lim) ==
    ListsOfLen(1..Len(coll), Least(Least(lim, nc), Len(coll)))

\* The $vectorSearch stage of hybrid_search: numCandidates is 50 whatever
\* the limit.
VectorArm(coll, lim) == VectorSearch(coll, NumCandidates, lim)

\* The $search stage and its $limit: the records matching the query text,
\* best first, at most lim of them (which they are depends on the query).
KeywordArm(coll, lim) == ListsOf(1..Len(coll), Least(lim, Len(coll)))

\* The rank (from 1) of x in the ranking q, 0 when it is not in it.
RankIn(q, x) ==
    IF \E i \in 1..Len(q) : q[i] = x
    THEN CHOOSE i \in 1..Len(q) : q[i] = x
    ELSE 0

\* (60 + 1) * ... * (60 + n): the common denominator of the rank scores.
RECURSIVE RankDenominator(_)
RankDenominator(n) == IF n = 0 THEN 1 ELSE (60 + n) * RankDenominator(n - 1)

\* The fused score of record x, times 10 * RankDenominator: each arm that
\* ranks x gives weight / (60 + rank), with weights 0.6 and 0.4.
FusedScore(vec, kw, x, n) ==
    (IF RankIn(vec, x) = 0 THEN 0
     ELSE 6 * (RankDenominator(n) \div (60 + RankIn(vec, x))))
    + (IF RankIn(kw, x) = 0 THEN 0
       ELSE 4 * (RankDenominator(n) \div (60 + RankIn(kw, x))))

\* The $rankFusion stage followed by the $project stage: every record that
\* either arm returned, once, by descending fused score (ties in any
\* order), projected to file_name, text and score.  The pipeline has no
\* stage after them.
Fused(coll, vec, kw, lim) ==
    {[i \in 1..Len(q) |->
         [file_name |-> coll[q[i]].file_name, text |-> coll[q[i]].text,
          score |-> FusedScore(vec, kw, q[i], lim)]] :
      q \in {o \in ListsOfLen(Range(vec) \cup Range(kw),
                              Cardinality(Range(vec) \cup Range(kw))) :
                \A i \in 1..(Len(o) - 1) :
                    FusedScore(vec, kw, o[i], lim) >= FusedScore(vec, kw, o[i + 1], lim)}}

\* The limits hybrid_search is called with: the small ones, and the one
\* that equals the stage's numCandidates.
LimitValues == (1..MaxLimit) \cup {NumCandidates}

\* hybrid_search(query_text, limit): the query decides the two rankings.
\* (The scores are scaled by the denominator of the ranks that can occur.)
HybridSearch ==
    /\ \E lim \in LimitValues :
        \E vec \in VectorArm(store, lim) : \E kw \in KeywordArm(store, lim) :
            /\ limit' = lim
            /\ vectorStage' = [numCandidates |-> NumCandidates, limit |-> lim]
            /\ results' \in Fused(store, vec, kw, Least(lim, Len(store)))
    /\ UNCHANGED <<chunkVars, ingestVars>>

\* The numCandidates and the limit of probe_search's stage.
ProbeCandidates == 10

ProbeLimit == 3

\* RAGPipeline.probe_search(query): one $vectorSearch stage and a $project
\* of text, file_name and the vectorSearchScore (here the rank).
ProbeSearch ==
    /\ \E vec \in VectorSearch(store, ProbeCandidates, ProbeLimit) :
        results' = [i \in 1..Len(vec) |->
                       [file_name |-> store[vec[i]].file_name,
                        text |-> store[vec[i]].text, score |-> i]]
    /\ limit' = ProbeLimit
    /\ vectorStage' = [numCandidates |-> ProbeCandidates, limit |-> ProbeLimit]
    /\ UNCHANGED <<chunkVars, ingestVars>>

\* The collection a completed run over the documents srcs leaves.
RECURSIVE StoreOf(_)
StoreOf(srcs) ==
    IF srcs = <<>> THEN <<>>
    ELSE LET d == Head(srcs)
             cs == DocChunks[d][150]
         IN  Payload(d, cs, Vectors(Len(cs), NUM_DIMENSIONS), 1) \o StoreOf(Tail(srcs))

InitSearch ==
    /\ \E srcs \in ListsOf(Docs, MaxDocs) : store = StoreOf(srcs)
    /\ limit = 0
    /\ results = <<>>
    /\ vectorStage = [numCandidates |-> 0, limit |-> 0]
    /\ chunkFiles = <<>>
    /\ enrichedFiles = <<>>
    /\ runPath = "none"
    /\ runState = "idle"
    /\ sources = <<>>
    /\ pending = <<>>
    /\ emitted = <<>>
    /\ encodeLog = <<>>
    /\ failed = {}
    /\ deleted = FALSE
    /\ runs = 0
    /\ aborts = FALSE
    /\ before = FALSE
    /\ collections = {}
    /\ indexes = {}
    /\ indexNote = "none"
    /\ ops = <<>>
    /\ text = <<>>
    /\ max_chars = 800
    /\ overlap = 150
    /\ start = 0
    /\ chunks = <<>>
    /\ seen = {}
    /\ pc = "idle"

NextSearch ==
    \/ HybridSearch
    \/ ProbeSearch

SpecSearch == InitSearch /\ [][NextSearch]_vars

\* C5: hybrid_search returns at most limit results.
C5_Truncated == Len(results) <= limit

\* C11: in every $vectorSearch stage sent for a limit >= 1, numCandidates
\* is strictly greater than the stage's limit.
C11_OverFetch ==
    vectorStage.limit >= 1 => vectorStage.numCandidates > vectorStage.limit

----------------------------------------------------------------------------
(* Properties of chunk_text *)

\* C1: with a degenerate configuration, overlap >= max_chars >= 1, the call
\* terminates on every text: the loop never gets into iterations that go on
\* for ever.
C1_DegenerateTerminates ==
    (overlap >= max_chars /\ max_chars >= 1) => pc # "diverged"

\* c is t without its leading and trailing whitespace.
IsTrimOf(c, t) ==
    \E a \in 0..Len(t) : \E b \in a..Len(t) :
        /\ c = SubSeq(t, a + 1, b)
        /\ \A i \in 1..a : IsWhitespace(t[i])
        /\ \A i \in (b + 1)..Len(t) : IsWhitespace(t[i])
        /\ c # <<>> => ~IsWhitespace(c[1]) /\ ~IsWhitespace(c[Len(c)])

\* The trimmed text, found among the slices of t.
Trimmed(t) ==
    CHOOSE c \in {SubSeq(t, a + 1, b) : a \in 0..Len(t), b \in 0..Len(t)} :
        IsTrimOf(c, t)

\* C8: when the text is longer than max_chars, every chunk emitted is at
\* most max_chars long and is a trimmed slice longer than 20 characters.
C8_ChunkLengths ==
    Len(text) > max_chars =>
        \A i \in 1..Len(chunks) :
            /\ Len(chunks[i]) <= max_chars
            /\ Len(chunks[i]) > 20
            /\ IsTrimOf(chunks[i], chunks[i])

\* C8's case: a long text has been chunked into several chunks, one of
\* them cut at a space and one of them exactly max_chars long.
C8_Witness ==
    /\ pc = "done"
    /\ Len(text) > max_chars
    /\ Len(chunks) >= 2
    /\ \E i \in 1..Len(chunks) : Len(chunks[i]) = max_chars
    /\ \E i \in 1..Len(chunks) : Len(chunks[i]) < max_chars

\* C9: when the text is no longer than max_chars, the call returns no chunk
\* if the trimmed text has 20 characters or fewer, and the trimmed text as
\* its only chunk otherwise, whatever the overlap.
C9_ShortText ==
    (pc = "done" /\ Len(text) <= max_chars) =>
        IF Len(Trimmed(text)) <= 20
        THEN chunks = <<>>
        ELSE chunks = <<Trimmed(text)>>

\* C9's cases: a short text with whitespace around more than 20 characters
\* has been returned trimmed, and a short text of at most 20 has given
\* nothing.
C9_Witness ==
    /\ pc = "done"
    /\ Len(text) <= max_chars
    /\ Len(chunks) = 1
    /\ Len(chunks[1]) < Len(text)
    /\ overlap >= max_chars

C10_IsScenario == Len(text) = 1000 /\ max_chars = 800 /\ overlap = 150

\* The end of the first window of the scenario: the last space before
\* index 800, or 800 when there is none.
C10_FirstEnd == WindowEnd(text, 800, 0)

\* C10 as stated: every text of exactly 1000 characters, chunked with
\* max_chars=800 and overlap=150, yields exactly 2 chunks.
C10_AlwaysTwoChunks ==
    (pc = "done" /\ C10_IsScenario) => Len(chunks) = 2

\* C10 amended: a text of exactly 1000 characters whose first window ends
\* at p >= 480 (the last space before index 800, or 800), and whose slices
\* [0, p) and [p - 150, 1000) are both longer than 20 characters once
\* trimmed, yields exactly those two trimmed slices, and the call returns.
C10_TwoChunks ==
    LET p == C10_FirstEnd
        c0 == Strip(Slice(text, 0, p))
        c1 == Strip(Slice(text, p - 150, 1000))
    IN  ( /\ C10_IsScenario
          /\ pc \in {"done", "diverged"}
          /\ p >= 480
          /\ Len(c0) > 20
          /\ Len(c1) > 20 )
        => pc = "done" /\ chunks = <<c0, c1>>

\* C10's case: a 1000-character text cut at a space between 480 and 799
\* has been chunked into two chunks, the second reaching the end.
C10_Witness ==
    /\ C10_IsScenario
    /\ pc = "done"
    /\ C10_FirstEnd \in 480..799
    /\ Len(chunks) = 2
    /\ Len(chunks[2]) = 1000 - (C10_FirstEnd - 150)

\* C13: on a text longer than max_chars, with max_chars >= 1 and
\* overlap >= 0, every iteration of the loop leaves start strictly greater
\* than it found it: start is greater than every start an iteration began
\* at, so it is never negative and never moves backwards.
C13_ForwardProgress ==
    (Len(text) > max_chars /\ max_chars >= 1 /\ overlap >= 0) =>
        \A s \in seen : start > s

\* The positions inside the windows [start, end) the loop has scanned.
Scanned == UNION {s..(WindowEnd(text, max_chars, s) - 1) : s \in seen}

\* C16: when the call has returned on a text longer than max_chars, with
\* 0 <= overlap < max_chars, every position of the text that holds a
\* character other than whitespace lies inside a scanned window.
C16_Coverage ==
    (pc = "done" /\ Len(text) > max_chars /\ overlap >= 0 /\ overlap < max_chars) =>
        LET scanned == Scanned
        IN  \A i \in 0..(Len(text) - 1) :
                ~IsWhitespace(text[i + 1]) => i \in scanned

====
